---- MODULE Spec2Model ----
(***************************************************************************)
(* Model of the InsightOps logrus hook (src/insightops.go).                *)
(*                                                                         *)
(* Four specifications share the variables below:                          *)
(*   SpecNew     - the constructor New, run on every argument triple of a  *)
(*                 bounded input space, with every outcome of the probe    *)
(*                 dial and of the probe connection's Close;               *)
(*   Spec        - a constructed hook used by concurrent callers of Fire   *)
(*                 and FlushAndClose, one step per access to the shared    *)
(*                 pool;                                                   *)
(*   SpecWriters - a constructed hook used by more concurrent writers than *)
(*                 the pool has room for, each logging one entry;          *)
(*   SpecFair    - Spec under weak fairness of every caller's steps.       *)
(*                                                                         *)
(* Go pointers are modelled as sequences of length at most one: <<>> is    *)
(* nil and <<x>> points to x.  Connections are numbered in dial order;     *)
(* the nil net.Conn is 0.                                                  *)
(***************************************************************************)
EXTENDS Integers, Sequences, FiniteSets, TLC

VARIABLES
    \* ---- New ----
    args,        \* the caller's arguments of New: token, region, options literal
    options,     \* the *Opts value New works on (New writes into its DatahubConfig)
    newPc,       \* position inside New: "start", "probe", "close", "done"
    hook,        \* the hook under construction / constructed: <<>> or <<record>>
    ret,         \* what New returned: [hook, err]
    probe,       \* outcome of New's probe: "none", "dial failed", "closed", "close failed"
    \* ---- network ----
    conns,       \* every connection dialed so far, in dial order
    dials,       \* number of dial attempts made so far
    \* ---- pool (hook.pool, hook.poolMutex) ----
    pool,        \* buffered contents of the channel hook.pool, oldest first
    poolClosed,  \* close(hook.pool) has been executed
    poolMutex,   \* holder of hook.poolMutex, 0 when unlocked
    \* ---- callers ----
    pc,          \* each caller's position
    op,          \* each caller's current operation: "none", "Fire", "Flush"
    entry,       \* the entry of the caller's current Fire
    held,        \* the connection the caller's write has checked out (0: none / nil)
    calls,       \* number of calls started so far
    sent,        \* the byte strings written to connections so far
    hist,        \* per caller, facts recorded about its current call (history)
    last         \* the call that returned most recently: op, result, entry, hist

vars == <<args, options, newPc, hook, ret, probe, conns, dials, pool, poolClosed,
          poolMutex, pc, op, entry, held, calls, sent, hist, last>>

newVars    == <<args, options, newPc, hook, ret, probe>>
poolVars   == <<pool, poolClosed, poolMutex>>
callerVars == <<pc, op, entry, held, calls, sent, hist, last>>

-----------------------------------------------------------------------------
(* Bounds of the model *)

MaxPriority == 8     \* Priority arguments range over 0..MaxPriority
NumCallers  == 2     \* concurrent callers of the hook in Spec
MaxCalls    == 3     \* calls (Fire or FlushAndClose) started in one behaviour
NumWriters  == 4     \* goroutines that each log one entry in SpecWriters

-----------------------------------------------------------------------------
(* Program constants *)

hostPostfix == ".data.logs.insight.rapid7.com"
tlsPort     == 443
poolSize    == 3

\* logrus.Level is an unsigned integer; AllLevels is ordered most severe first
PanicLevel == 0
FatalLevel == 1
ErrorLevel == 2
WarnLevel  == 3
InfoLevel  == 4
DebugLevel == 5
TraceLevel == 6
AllLevels  == <<PanicLevel, FatalLevel, ErrorLevel, WarnLevel, InfoLevel,
                DebugLevel, TraceLevel>>

Nil == <<>>

-----------------------------------------------------------------------------
(* New: argument space *)

Tokens   == {"", "T1"}
Regions  == {"", "eu", "us", "uk"}
HubTypes == {"", "tcp", "udp", "bogus"}
HubPorts == {0, 80, 514, 10000, 9999}
HubHosts == {"", "localhost"}

\* A hub literal as the caller writes it; absent Type / Port are Go's zero values
HubLits == [Type : HubTypes, Port : HubPorts, Host : HubHosts]

\* An Opts literal as the caller writes it.  Priority is <<>> when the caller
\* leaves the field out and <<v>> when the caller sets it to v.
OptsLits == [Priority      : {Nil} \cup {<<v>> : v \in 0..MaxPriority},
             TlsConfig     : {Nil, <<"customRoots">>},
             DatahubConfig : {Nil} \cup {<<h>> : h \in HubLits}]

\* The Opts value Go builds from a literal: a field left out is its zero value
MakeOpts(lit) ==
    [Priority      |-> IF lit.Priority = Nil THEN 0 ELSE lit.Priority[1],
     TlsConfig     |-> lit.TlsConfig,
     DatahubConfig |-> lit.DatahubConfig]

ArgSpace == [token : Tokens, region : Regions,
             options : {Nil} \cup {<<l>> : l \in OptsLits}]

-----------------------------------------------------------------------------
(* New: resolution of the arguments (pure part, lines 52-106) *)

ErrMissingToken   == "unable to create new hook: a Token is required"
ErrInvalidRegion  == "unable to create new hook: a Region is required and must be eu or us"
ErrMissingHubHost == "unable to create new hook: a Datahub config must contain a Host target"
ErrClose          == "close error"
ErrDial           == "dial error"
ErrWrite          == "write error"
ErrFormat         == "format error"
NoErr             == "nil"
Panic             == "panic"       \* the call did not return: it panicked
Returned          == "returned"    \* return of a function without results

HasHub(opts) == opts # Nil /\ opts[1].DatahubConfig # Nil

\* Order swapped: region is checked before the token
ValidationError_RegionFirst(token, region, opts) ==
    IF region = "" \/ (region # "eu" /\ region # "us") THEN ErrInvalidRegion
    ELSE IF token = "" THEN ErrMissingToken
    ELSE IF HasHub(opts) /\ opts[1].DatahubConfig[1].Host = "" THEN ErrMissingHubHost
    ELSE NoErr

\* The error of the first failing check, NoErr when all pass
ValidationError(token, region, opts) ==
    IF token = "" THEN ErrMissingToken
    ELSE IF region = "" \/ (region # "eu" /\ region # "us") THEN ErrInvalidRegion
    ELSE IF HasHub(opts) /\ opts[1].DatahubConfig[1].Host = "" THEN ErrMissingHubHost
    ELSE NoErr

\* Unlisted transport kept as given
ResolveType_Keep(t) == IF t = "" THEN "tcp" ELSE t

ResolveType(t) == IF t = "" \/ (t # "tcp" /\ t # "udp") THEN "tcp" ELSE t

ResolvePort(p) ==
    IF p = 0 \/ (p # 80 /\ p # 514 /\ p # 10000) THEN 514 ELSE p

ResolvePriority(p) ==
    IF p < PanicLevel \/ p > TraceLevel THEN InfoLevel ELSE p

ResolveLevels(opts) ==
    IF opts = Nil THEN AllLevels
    ELSE SubSeq(AllLevels, 1, ResolvePriority(opts[1].Priority) + 1)

\* The *Opts after New: lines 91 and 94 write the defaults into the caller's hub
ResolveOptions(opts) ==
    IF HasHub(opts)
    THEN LET h == opts[1].DatahubConfig[1]
         IN  <<[opts[1] EXCEPT !.DatahubConfig =
                   <<[h EXCEPT !.Type = ResolveType(h.Type),
                               !.Port = ResolvePort(h.Port)]>>]>>
    ELSE opts

\* The direct delivery host is fixed to one region, whatever the region given
ResolveHook_FixedHost(token, region, opts) ==
    LET hub == HasHub(opts)
        h   == ResolveOptions(opts)[1].DatahubConfig[1]
        enc == ~hub
    IN  [encrypt   |-> enc,
         token     |-> token,
         levels    |-> ResolveLevels(opts),
         network   |-> IF hub THEN h.Type ELSE "tcp",
         host      |-> IF hub THEN h.Host ELSE "us" \o hostPostfix,
         port      |-> IF hub THEN h.Port ELSE tlsPort,
         tlsConfig |-> IF opts # Nil /\ enc /\ opts[1].TlsConfig # Nil
                       THEN opts[1].TlsConfig ELSE Nil,
         poolSize  |-> poolSize]

\* The hook New builds when validation passes
ResolveHook(token, region, opts) ==
    LET hub == HasHub(opts)
        h   == ResolveOptions(opts)[1].DatahubConfig[1]
        enc == ~hub
    IN  [encrypt   |-> enc,
         token     |-> token,
         levels    |-> ResolveLevels(opts),
         network   |-> IF hub THEN h.Type ELSE "tcp",
         host      |-> IF hub THEN h.Host ELSE region \o hostPostfix,
         port      |-> IF hub THEN h.Port ELSE tlsPort,
         tlsConfig |-> IF opts # Nil /\ enc /\ opts[1].TlsConfig # Nil
                       THEN opts[1].TlsConfig ELSE Nil,
         poolSize  |-> poolSize]

\* Levels(): the hook's level filter
Levels(h) == h.levels

\* A freshly dialed connection to the hook's target; closes counts Close calls
netConnect(h) ==
    [network |-> h.network, host |-> h.host, port |-> h.port,
     tls |-> h.encrypt, tlsConfig |-> h.tlsConfig, closes |-> 0]

Close(cs, c) == [cs EXCEPT ![c].closes = @ + 1]

IsOpen(c) == c \in 1..Len(conns) /\ conns[c].closes = 0

-----------------------------------------------------------------------------
(* New: the constructor as a process (lines 51-117) *)

Callers == 1..NumCallers

NoEntry == [msg |-> "", marshals |-> TRUE]
NoHist  == [idleAtCall |-> {}, quietAtCall |-> FALSE, quiet |-> FALSE,
            drained |-> {}, dialed |-> 0, writes |-> 0,
            got |-> 0, wrote |-> <<>>, werr |-> "none"]

NoCall  == [op |-> "none", result |-> "none", entry |-> NoEntry, hist |-> NoHist]

\* n callers before any call is made
CallersInit(n) ==
    /\ pc     = [p \in 1..n |-> "idle"]
    /\ op     = [p \in 1..n |-> "none"]
    /\ entry  = [p \in 1..n |-> NoEntry]
    /\ held   = [p \in 1..n |-> 0]
    /\ hist   = [p \in 1..n |-> NoHist]
    /\ last   = NoCall
    /\ calls  = 0
    /\ sent   = {}

InitNew ==
    /\ args \in ArgSpace
    /\ options = IF args.options = Nil THEN Nil ELSE <<MakeOpts(args.options[1])>>
    /\ newPc = "start"
    /\ hook = Nil
    /\ ret = [hook |-> Nil, err |-> NoErr]
    /\ probe = "none"
    /\ conns = <<>>
    /\ dials = 0
    /\ pool = <<>>
    /\ poolClosed = FALSE
    /\ poolMutex = 0
    /\ CallersInit(0)

\* lines 52-106: validate, build the hook, make the pool, apply the options
NewResolve ==
    /\ newPc = "start"
    /\ LET e == ValidationError(args.token, args.region, options)
       IN  IF e # NoErr
           THEN /\ newPc' = "done"
                /\ ret' = [hook |-> Nil, err |-> e]
                /\ UNCHANGED <<hook, options>>
           ELSE /\ newPc' = "probe"
                /\ hook' = <<ResolveHook(args.token, args.region, options)>>
                /\ options' = ResolveOptions(options)
                /\ UNCHANGED ret
    /\ pool' = <<>>
    /\ UNCHANGED <<args, probe, conns, dials, poolClosed, poolMutex, callerVars>>

\* A failed probe dial fails New
NewProbeDial_FailOnDialError ==
    /\ newPc = "probe"
    /\ dials' = dials + 1
    /\ \E ok \in BOOLEAN :
         IF ok
         THEN /\ conns' = Append(conns, netConnect(hook[1]))
              /\ newPc' = "close"
              /\ UNCHANGED <<ret, probe>>
         ELSE /\ newPc' = "done"
              /\ probe' = "dial failed"
              /\ ret' = [hook |-> Nil, err |-> ErrDial]
              /\ UNCHANGED conns
    /\ UNCHANGED <<args, options, hook, poolVars, callerVars>>

\* line 109: the probe dial; on failure New returns the hook and no error
NewProbeDial ==
    /\ newPc = "probe"
    /\ dials' = dials + 1
    /\ \E ok \in BOOLEAN :
         IF ok
         THEN /\ conns' = Append(conns, netConnect(hook[1]))
              /\ newPc' = "close"
              /\ UNCHANGED <<ret, probe>>
         ELSE /\ newPc' = "done"
              /\ probe' = "dial failed"
              /\ ret' = [hook |-> hook, err |-> NoErr]
              /\ UNCHANGED conns
    /\ UNCHANGED <<args, options, hook, poolVars, callerVars>>

\* lines 110-116: close the probe connection; a Close error fails New
NewProbeClose ==
    /\ newPc = "close"
    /\ conns' = Close(conns, Len(conns))
    /\ \E closeErr \in BOOLEAN :
         IF closeErr
         THEN /\ probe' = "close failed"
              /\ ret' = [hook |-> Nil, err |-> ErrClose]
         ELSE /\ probe' = "closed"
              /\ ret' = [hook |-> hook, err |-> NoErr]
    /\ newPc' = "done"
    /\ UNCHANGED <<args, options, hook, dials, poolVars, callerVars>>

NextNew == NewResolve \/ NewProbeDial \/ NewProbeClose

SpecNew == InitNew /\ [][NextNew]_vars

-----------------------------------------------------------------------------
(* A constructed hook used by concurrent callers (lines 122-209) *)

Msgs    == {"hello", "bye"}
Entries == [msg : Msgs, marshals : BOOLEAN]

\* format: the JSON line of an entry (logrus.JSONFormatter, newline-terminated)
format(e) == "{\"msg\":\"" \o e.msg \o "\"}\n"

Range(q) == {q[i] : i \in 1..Len(q)}

\* A Fire call of caller p is in progress
InFire(p) == op[p] = "Fire"

\* hist with a Fire call recorded as overlapping every FlushAndClose in progress
Overlap(h) ==
    [q \in DOMAIN h |-> IF op[q] = "Flush" THEN [h[q] EXCEPT !.quiet = FALSE] ELSE h[q]]

\* The arguments the test suite constructs its hub hook with
TestArgs ==
    [token |-> "00000000-0000-0000-0000-000000000000", region |-> "eu",
     options |-> <<[Priority |-> <<InfoLevel>>, TlsConfig |-> Nil,
                    DatahubConfig |-> <<[Type |-> "tcp", Port |-> 514,
                                         Host |-> "localhost"]>>]>>]

\* The state in which New has returned a hook for TestArgs to n callers: the
\* probe dial either failed, or succeeded and its connection was closed
\* without error
HookReady(n) ==
    /\ args = TestArgs
    /\ options = ResolveOptions(<<MakeOpts(args.options[1])>>)
    /\ newPc = "done"
    /\ hook = <<ResolveHook(args.token, args.region, <<MakeOpts(args.options[1])>>)>>
    /\ ret = [hook |-> hook, err |-> NoErr]
    /\ dials = 1
    /\ \/ probe = "dial failed" /\ conns = <<>>
       \/ probe = "closed" /\ conns = Close(<<netConnect(hook[1])>>, 1)
    /\ pool = <<>>
    /\ poolClosed = FALSE
    /\ poolMutex = 0
    /\ CallersInit(n)

Init == HookReady(NumCallers)

\* The call of caller p ends with outcome r; h is its history at that point
Return(p, r, h) ==
    /\ pc' = [pc EXCEPT ![p] = "idle"]
    /\ op' = [op EXCEPT ![p] = "none"]
    /\ entry' = [entry EXCEPT ![p] = NoEntry]
    /\ hist' = [hist EXCEPT ![p] = NoHist]
    /\ last' = [op |-> op[p], result |-> r, entry |-> entry[p], hist |-> h]

\* line 122: caller p enters Fire with an entry of E
EnterFire(p, E) ==
    /\ pc[p] = "idle"
    /\ calls' = calls + 1
    /\ \E e \in E : entry' = [entry EXCEPT ![p] = e]
    /\ op' = [op EXCEPT ![p] = "Fire"]
    /\ pc' = [pc EXCEPT ![p] = "format"]
    /\ hist' = Overlap(hist)
    /\ UNCHANGED <<newVars, conns, dials, poolVars, held, sent, last>>

\* line 122: Fire is called with an entry
FireCall(p) ==
    /\ calls < MaxCalls
    /\ EnterFire(p, Entries)

\* The formatting error is ignored and the entry is delivered all the same
FireFormat_Deliver(p) ==
    /\ pc[p] = "format"
    /\ pc' = [pc EXCEPT ![p] = "getConn"]
    /\ UNCHANGED <<newVars, conns, dials, poolVars, op, entry, held, calls, sent,
                   hist, last>>

\* lines 123-129: format the entry; a formatting error is returned at once,
\* otherwise write begins
FireFormat(p) ==
    /\ pc[p] = "format"
    /\ IF entry[p].marshals
       THEN /\ pc' = [pc EXCEPT ![p] = "getConn"]
            /\ UNCHANGED <<op, entry, hist, last>>
       ELSE Return(p, ErrFormat, hist[p])
    /\ UNCHANGED <<newVars, conns, dials, poolVars, held, calls, sent>>

\* Fire hands the error of write back to its caller
FireResult_Propagate(writeErr) == writeErr

\* lines 129-133: whatever write returned, Fire logs it and returns nil
FireResult(writeErr) == NoErr

\* The select waits for a connection to come back while as many as the pool's
\* capacity are out
SelectDefault_UpToCapacity(out) == out < poolSize

\* lines 173-177: with nothing to receive the select takes its default branch
\* at once, however many connections are checked out
SelectDefault(out) == TRUE

\* The receive yields the connection sent last
Received_Newest(ch) == ch[Len(ch)]

\* lines 174-175: the connection a receive yields, the one sent first
Received(ch) == Head(ch)

\* The receive leaves the connection in the channel
Receive_Keep(ch) == ch

\* lines 174-175: what a receive leaves in the channel
Receive(ch) == Tail(ch)

\* lines 172-179 (and 160-162, 129-133 when the dial fails): getConn
FireGetConn(p) ==
    /\ pc[p] = "getConn"
    /\ IF pool # <<>>
       THEN \* a buffered connection is received
            /\ held' = [held EXCEPT ![p] = Received(pool)]
            /\ pool' = Receive(pool)
            /\ pc' = [pc EXCEPT ![p] = "write"]
            /\ hist' = [hist EXCEPT ![p].got = Received(pool)]
            /\ UNCHANGED <<conns, dials, op, entry, last>>
       ELSE IF poolClosed
       THEN \* a closed, drained channel yields the zero value: a nil conn, no error
            /\ held' = [held EXCEPT ![p] = 0]
            /\ pc' = [pc EXCEPT ![p] = "write"]
            /\ UNCHANGED <<pool, conns, dials, op, entry, hist, last>>
       ELSE \* default: dial
            /\ SelectDefault(Cardinality({q \in DOMAIN held : held[q] # 0}))
            /\ dials' = dials + 1
            /\ \E ok \in BOOLEAN :
                 IF ok
                 THEN /\ conns' = Append(conns, netConnect(hook[1]))
                      /\ held' = [held EXCEPT ![p] = Len(conns) + 1]
                      /\ pc' = [pc EXCEPT ![p] = "write"]
                      /\ hist' = [hist EXCEPT ![p].dialed = @ + 1,
                                              ![p].got = Len(conns) + 1]
                      /\ UNCHANGED <<op, entry, last>>
                 ELSE /\ Return(p, FireResult(ErrDial),
                                [hist[p] EXCEPT !.dialed = @ + 1, !.werr = ErrDial])
                      /\ UNCHANGED <<conns, held>>
            /\ UNCHANGED pool
    /\ UNCHANGED <<newVars, poolClosed, poolMutex, calls, sent>>

\* The token and the line are separated by a blank
Payload_Delimited(tok, line) == tok \o " " \o line

\* line 163: the bytes handed to conn.Write
Payload(tok, line) == tok \o line

\* The history of caller p after one more conn.Write on the connection it holds
Wrote(p, ok) ==
    [hist[p] EXCEPT !.writes = @ + 1,
                    !.wrote = Append(@, [conn |-> held[p], ok |-> ok,
                                         bytes |-> Payload(hook[1].token,
                                                           format(entry[p]))])]

\* lines 163-167 (and 129-133 when the write fails): conn.Write
FireWrite(p) ==
    /\ pc[p] = "write"
    /\ IF held[p] = 0
       THEN \* method call on a nil net.Conn
            /\ Return(p, Panic, hist[p])
            /\ UNCHANGED <<conns, held, sent>>
       ELSE \E ok \in (IF IsOpen(held[p]) THEN BOOLEAN ELSE {FALSE}) :
                 IF ok
                 THEN /\ sent' = sent \cup {Payload(hook[1].token, format(entry[p]))}
                      /\ pc' = [pc EXCEPT ![p] = "putLock"]
                      /\ hist' = [hist EXCEPT ![p] = Wrote(p, TRUE)]
                      /\ UNCHANGED <<conns, held, op, entry, last>>
                 ELSE /\ conns' = Close(conns, held[p])
                      /\ held' = [held EXCEPT ![p] = 0]
                      /\ Return(p, FireResult(ErrWrite),
                                [Wrote(p, FALSE) EXCEPT !.werr = ErrWrite])
                      /\ UNCHANGED sent
    /\ UNCHANGED <<newVars, dials, poolVars, calls>>

\* Unlock is called at the end of the function and is skipped by a panic
Unlock_AtEnd(m, panics) == IF panics THEN m ELSE 0

\* lines 183, 194: the deferred Unlock frees the mutex when the function
\* returns and when it panics
Unlock(m, panics) == 0

\* Lock returns at once even while another caller holds the mutex
Unlocked_Always(m) == TRUE

\* lines 182, 193: Lock returns only when no caller holds the mutex
Unlocked(m) == m = 0

\* line 182: putConn takes the mutex
FirePutLock(p) ==
    /\ pc[p] = "putLock"
    /\ Unlocked(poolMutex)
    /\ poolMutex' = p
    /\ pc' = [pc EXCEPT ![p] = "putSelect"]
    /\ UNCHANGED <<newVars, conns, dials, pool, poolClosed, op, entry, held,
                   calls, sent, hist, last>>

\* The channel takes one connection more than its capacity
HasRoom_OneMore(ch, capacity) == Len(ch) <= capacity

\* lines 73, 184-185: a send on the buffered channel proceeds while the
\* buffer holds fewer than its capacity
HasRoom(ch, capacity) == Len(ch) < capacity

\* lines 183-190 (and 168-169, 133): the select of putConn, unlock, return
FirePutSelect(p) ==
    /\ pc[p] = "putSelect"
    /\ IF poolClosed
       THEN \* send on a closed channel
            /\ Return(p, Panic, hist[p])
            /\ UNCHANGED <<pool, conns>>
       ELSE IF HasRoom(pool, hook[1].poolSize)
       THEN /\ pool' = Append(pool, held[p])
            /\ Return(p, FireResult(NoErr), [hist[p] EXCEPT !.werr = NoErr])
            /\ UNCHANGED conns
       ELSE /\ conns' = Close(conns, held[p])
            /\ Return(p, FireResult(NoErr), [hist[p] EXCEPT !.werr = NoErr])
            /\ UNCHANGED pool
    /\ held' = [held EXCEPT ![p] = 0]
    /\ poolMutex' = Unlock(poolMutex, poolClosed)
    /\ UNCHANGED <<newVars, dials, poolClosed, calls, sent>>

\* line 192: FlushAndClose is called
FlushCall(p) ==
    /\ pc[p] = "idle"
    /\ calls < MaxCalls
    /\ calls' = calls + 1
    /\ op' = [op EXCEPT ![p] = "Flush"]
    /\ pc' = [pc EXCEPT ![p] = "fLock"]
    /\ hist' = [hist EXCEPT ![p] =
                  [NoHist EXCEPT !.idleAtCall = Range(pool),
                                 !.quietAtCall = \A q \in DOMAIN pc : ~InFire(q),
                                 !.quiet = \A q \in DOMAIN pc : ~InFire(q)]]
    /\ UNCHANGED <<newVars, conns, dials, poolVars, entry, held, sent, last>>

\* line 193
FlushLock(p) ==
    /\ pc[p] = "fLock"
    /\ Unlocked(poolMutex)
    /\ poolMutex' = p
    /\ pc' = [pc EXCEPT ![p] = "fClose"]
    /\ UNCHANGED <<newVars, conns, dials, pool, poolClosed, op, entry, held,
                   calls, sent, hist, last>>

\* line 195: close(hook.pool); closing a closed channel panics
FlushClose(p) ==
    /\ pc[p] = "fClose"
    /\ IF poolClosed
       THEN /\ Return(p, Panic, hist[p])
            /\ poolMutex' = Unlock(poolMutex, TRUE)
            /\ UNCHANGED poolClosed
       ELSE /\ poolClosed' = TRUE
            /\ pc' = [pc EXCEPT ![p] = "fDrain"]
            /\ UNCHANGED <<poolMutex, op, entry, hist, last>>
    /\ UNCHANGED <<newVars, conns, dials, pool, held, calls, sent>>

\* The drained connections are dropped without being closed
FlushDrain_NoClose(p) ==
    /\ pc[p] = "fDrain"
    /\ IF pool # <<>>
       THEN /\ pool' = Tail(pool)
            /\ hist' = [hist EXCEPT ![p].drained = @ \cup {Head(pool)}]
            /\ UNCHANGED <<poolMutex, pc, op, entry, last>>
       ELSE /\ poolMutex' = 0
            /\ Return(p, Returned, hist[p])
            /\ UNCHANGED pool
    /\ UNCHANGED <<newVars, conns, dials, poolClosed, held, calls, sent>>

\* lines 196-199: one iteration of the range loop, or its end and the return
FlushDrain(p) ==
    /\ pc[p] = "fDrain"
    /\ IF pool # <<>>
       THEN /\ conns' = Close(conns, Head(pool))
            /\ pool' = Tail(pool)
            /\ hist' = [hist EXCEPT ![p].drained = @ \cup {Head(pool)}]
            /\ UNCHANGED <<poolMutex, pc, op, entry, last>>
       ELSE /\ poolMutex' = 0
            /\ Return(p, Returned, hist[p])
            /\ UNCHANGED <<conns, pool>>
    /\ UNCHANGED <<newVars, dials, poolClosed, held, calls, sent>>


Next ==
    \E p \in Callers :
        \/ FireCall(p)
        \/ FireFormat(p)
        \/ FireGetConn(p)
        \/ FireWrite(p)
        \/ FirePutLock(p)
        \/ FirePutSelect(p)
        \/ FlushCall(p)
        \/ FlushLock(p)
        \/ FlushClose(p)
        \/ FlushDrain(p)

Spec == Init /\ [][Next]_vars

-----------------------------------------------------------------------------
(* SpecWriters: NumWriters goroutines log one entry each through the hook *)

Writers == 1..NumWriters

InitWriters == HookReady(NumWriters)

\* line 122: the writers are numbered in the order in which they call Fire,
\* and each logs the same serializable entry
WriterFire(p) ==
    /\ calls = p - 1
    /\ EnterFire(p, {[msg |-> "hello", marshals |-> TRUE]})

NextWriters ==
    \E p \in Writers :
        \/ WriterFire(p) \/ FireFormat(p) \/ FireGetConn(p) \/ FireWrite(p)
        \/ FirePutLock(p) \/ FirePutSelect(p)

SpecWriters == InitWriters /\ [][NextWriters]_vars

-----------------------------------------------------------------------------
(* SpecFair: Spec where every dial, write and close returns and the
   scheduler runs every goroutine that stays able to take its next step *)

\* The steps of caller p inside a call it has made
Step(p) ==
    \/ FireFormat(p) \/ FireGetConn(p) \/ FireWrite(p)
    \/ FirePutLock(p) \/ FirePutSelect(p)
    \/ FlushLock(p) \/ FlushClose(p) \/ FlushDrain(p)

SpecFair == Spec /\ \A p \in Callers : WF_vars(Step(p))

-----------------------------------------------------------------------------
(* Properties of Fire and FlushAndClose, checked under Spec *)

Closed(c) == c \in 1..Len(conns) /\ conns[c].closes > 0

FireEnded  == last.op = "Fire"
FlushEnded == last.op = "Flush" /\ last.result = Returned

\* C1: a Fire call never makes the calling application fail: under every
\* interleaving of Fire and FlushAndClose every Fire returns, none panics.
C1_FireNeverPanics == FireEnded => last.result # Panic

\* C2: whenever serialization of the entry succeeds, Fire returns nil, whether
\* the dial fails, the write fails or the write succeeds.
C2_FireReturnsNilWhenSerialized ==
    (FireEnded /\ last.entry.marshals) => last.result = NoErr

\* C3: when serialization of the entry fails, Fire returns that error and
\* attempts no delivery: the step that ends the formatting returns the format
\* error, checks nothing out, dials nothing, writes nothing and leaves the
\* pool as it was.
C3_FormatErrorNoDelivery ==
    [][\A p \in Callers :
         (pc[p] = "format" /\ ~entry[p].marshals /\ pc'[p] # "format")
         => /\ pc'[p] = "idle"
            /\ last'.op = "Fire" /\ last'.result = ErrFormat
            /\ last'.hist.dialed = 0 /\ last'.hist.writes = 0
            /\ UNCHANGED <<pool, poolClosed, poolMutex, conns, dials, held, sent>>]_vars

\* C3 witness: a Fire has returned the format error while an idle connection
\* sits in the pool
C3_Witness ==
    /\ FireEnded /\ last.result = ErrFormat /\ ~last.entry.marshals
    /\ pool # <<>>

\* C4 as stated, for the Fire calls that return: Fire reports success (nil) for
\* every entry, whatever the outcome of serialization, dial and write.
C4_FireAlwaysReportsSuccess ==
    (FireEnded /\ last.result # Panic) => last.result = NoErr

\* C4 amended: only delivery errors are swallowed.  Fire never returns a dial
\* or write error; the one error it returns is the serialization error, and it
\* returns it exactly when serialization fails.
C4_OnlyDeliveryErrorsSwallowed ==
    FireEnded =>
        /\ last.result \notin {ErrDial, ErrWrite}
        /\ (last.result = ErrFormat) <=> ~last.entry.marshals

\* C4 witness: a Fire whose write failed has returned nil (the pool was never
\* closed nor full, so the connection it dialed was closed by the failed write)
C4_Witness ==
    /\ FireEnded /\ last.result = NoErr /\ last.entry.marshals
    /\ last.hist.dialed = 1 /\ last.hist.writes = 1
    /\ calls = 1 /\ ~poolClosed /\ pool = <<>>
    /\ Closed(Len(conns))

\* C5 as stated: once FlushAndClose has returned, every connection that was
\* idle in the pool when it was called is closed, the pool holds no connection,
\* no connection checked out by a write was closed by it, and if no Fire was
\* in progress when it was called every connection ever dialed is closed.
C5_FlushClosesIdleAtCall ==
    FlushEnded =>
        /\ \A c \in last.hist.idleAtCall : Closed(c)
        /\ pool = <<>>
        /\ \A p \in Callers : held[p] \notin last.hist.drained
        /\ last.hist.quietAtCall => \A c \in 1..Len(conns) : Closed(c)

\* C5 amended: once FlushAndClose has returned, every connection it removed
\* from the pool is closed, the pool holds no connection and is closed, and no
\* connection checked out by a write was closed by it; if no Fire was in
\* progress at any moment between its call and its return, every connection
\* that was idle when it was called, and every connection ever dialed, is
\* closed.
C5_FlushClosesWhatItDrains ==
    /\ \A p \in Callers : \A q \in Callers :
          held[q] # 0 => held[q] \notin hist[p].drained
    /\ FlushEnded =>
        /\ \A c \in last.hist.drained : Closed(c)
        /\ pool = <<>> /\ poolClosed
        /\ \A p \in Callers : held[p] # 0 => held[p] \notin last.hist.drained
        /\ last.hist.quiet =>
              /\ last.hist.drained = last.hist.idleAtCall
              /\ \A c \in 1..Len(conns) : Closed(c)

\* C5 witness: a FlushAndClose that overlapped no write has returned after
\* closing two idle connections
C5_Witness ==
    FlushEnded /\ last.hist.quiet /\ Cardinality(last.hist.drained) = 2

-----------------------------------------------------------------------------
(* Properties of New, checked under SpecNew *)

NewDone == newPc = "done"

\* What the caller passed, read from the literal it wrote
ArgHub      == args.options # Nil /\ args.options[1].DatahubConfig # Nil
ArgHubLit   == args.options[1].DatahubConfig[1]
ValidRegion == args.region = "eu" \/ args.region = "us"
ValidArgs   == args.token # "" /\ ValidRegion /\ ~(ArgHub /\ ArgHubLit.Host = "")

\* C6: New validates token, then region, then hub host, and the first failing
\* check decides the error; on each of these errors New returns no hook and
\* never dials.
C6_ValidationOrder ==
    /\ ~ValidArgs => dials = 0 /\ conns = <<>> /\ hook = Nil
    /\ NewDone =>
        /\ args.token = "" => ret = [hook |-> Nil, err |-> ErrMissingToken]
        /\ (args.token # "" /\ ~ValidRegion)
              => ret = [hook |-> Nil, err |-> ErrInvalidRegion]
        /\ (args.token # "" /\ ValidRegion /\ ArgHub /\ ArgHubLit.Host = "")
              => ret = [hook |-> Nil, err |-> ErrMissingHubHost]

\* C6 witness: New has returned the missing-token error for an invalid region
\* and a hub without host
C6_Witness ==
    /\ NewDone /\ args.token = "" /\ args.region = "uk"
    /\ ArgHub /\ ArgHubLit.Host = ""
    /\ ret.err = ErrMissingToken

DirectTarget(h) ==
    /\ h.host = args.region \o ".data.logs.insight.rapid7.com"
    /\ h.port = 443
    /\ h.network = "tcp"
    /\ h.encrypt = TRUE

\* C7 as stated: for a non-empty token, a region in {eu, us} and no hub
\* override, New succeeds with the direct target for every probe outcome.
C7_DirectAlwaysSucceeds ==
    (NewDone /\ ValidArgs /\ ~ArgHub)
        => ret.err = NoErr /\ ret.hook # Nil /\ DirectTarget(ret.hook[1])

\* C7 amended: for a non-empty token, a region in {eu, us} and no hub override
\* the resolved target is host = region + ".data.logs.insight.rapid7.com",
\* port 443, tcp, encrypted, and New returns that hook and no error for every
\* probe outcome except a probe connection whose Close reports an error, for
\* which New returns that error and no hook.
C7_DirectTarget ==
    (ValidArgs /\ ~ArgHub /\ newPc # "start") =>
        /\ hook # Nil /\ DirectTarget(hook[1])
        /\ NewDone =>
              IF probe = "close failed"
              THEN ret = [hook |-> Nil, err |-> ErrClose]
              ELSE ret = [hook |-> hook, err |-> NoErr]

\* C7 witness: New has returned a hook for region eu after a failed probe dial
C7_Witness ==
    /\ NewDone /\ ValidArgs /\ ~ArgHub /\ args.region = "eu"
    /\ probe = "dial failed" /\ ret.hook # Nil /\ ret.err = NoErr

\* C8: with a hub override whose Host is non-empty the target is unencrypted,
\* its host is the override's Host, its transport the override's Type if tcp
\* or udp and tcp otherwise, its port the override's Port if in {80, 514,
\* 10000} and 514 otherwise; every hook has encrypted => tcp, and a custom TLS
\* configuration only when encrypted.
C8_HubTarget ==
    hook # Nil =>
        /\ ArgHub =>
              /\ hook[1].encrypt = FALSE
              /\ hook[1].host = ArgHubLit.Host /\ ArgHubLit.Host # ""
              /\ hook[1].network = IF ArgHubLit.Type \in {"tcp", "udp"}
                                   THEN ArgHubLit.Type ELSE "tcp"
              /\ hook[1].port = IF ArgHubLit.Port \in {80, 514, 10000}
                                THEN ArgHubLit.Port ELSE 514
        /\ hook[1].encrypt => hook[1].network = "tcp"
        /\ hook[1].tlsConfig # Nil => hook[1].encrypt
        /\ ret.hook # Nil => ret.hook = hook

\* C8 witness: New has returned a hook for a hub override with an unlisted
\* transport and an unlisted port, given together with a TLS configuration
C8_Witness ==
    /\ NewDone /\ ret.hook # Nil /\ ArgHub
    /\ ArgHubLit.Type = "bogus" /\ ArgHubLit.Port = 9999
    /\ args.options[1].TlsConfig # Nil

\* The priority threshold the caller asked for, InfoLevel when the options are
\* absent, the Priority is not set, or it lies outside PanicLevel..TraceLevel
Threshold ==
    IF args.options = Nil THEN InfoLevel
    ELSE IF args.options[1].Priority = Nil THEN InfoLevel
    ELSE IF args.options[1].Priority[1] > TraceLevel THEN InfoLevel
    ELSE args.options[1].Priority[1]

\* C9: Levels() is the prefix of panic, fatal, error, warn, info, debug, trace
\* through the priority threshold inclusive, the threshold being info when the
\* options are absent, the Priority is not set, or it is out of range.
C9_LevelsPrefixThroughThreshold ==
    hook # Nil => Levels(hook[1]) = SubSeq(AllLevels, 1, Threshold + 1)

\* C10: with valid arguments New makes exactly one probe dial; a failed dial
\* leaves New successful; a dialed probe connection is closed before New
\* returns and New fails only when that Close reports an error; the pool is
\* empty when New returns.
C10_ProbeSemantics ==
    ValidArgs =>
        /\ dials <= 1 /\ Len(conns) <= dials
        /\ pool = <<>>
        /\ NewDone =>
              /\ dials = 1
              /\ probe = "dial failed"
                    => conns = <<>> /\ ret = [hook |-> hook, err |-> NoErr]
              /\ probe # "dial failed"
                    => Len(conns) = 1 /\ conns[1].closes = 1
              /\ ret.err # NoErr <=> probe = "close failed"
              /\ ret.hook = Nil <=> probe = "close failed"
              /\ ret.hook # Nil => ret.hook = hook /\ hook # Nil

\* C10 witness: New has failed on the Close error of its probe connection
C10_Witness ==
    NewDone /\ ValidArgs /\ probe = "close failed" /\ ret.err = ErrClose

\* ------------------------------------------------------------------------
\* The wire format and the pool discipline, checked under Spec
\* ------------------------------------------------------------------------

\* t occurs in s as a contiguous run of bytes
Contains(s, t) ==
    \E i \in 1..(Len(s) - Len(t) + 1) : SubSeq(s, i, i + Len(t) - 1) = t

\* The one record a Fire of entry e leaves for its write on connection c
OneWrite(c, e, ok) ==
    <<[conn |-> c, ok |-> ok, bytes |-> hook[1].token \o format(e)]>>

\* C11: a Fire whose entry serializes and that obtains a connection makes
\* exactly one conn.Write, on that connection, and the bytes are the token
\* immediately followed by the serialized entry; every payload delivered
\* therefore contains the token and the message of the entry it carries.
C11_WireFormat ==
    /\ \A p \in Callers :
          pc[p] \in {"putLock", "putSelect"}
             => /\ held[p] = hist[p].got
                /\ hist[p].wrote = OneWrite(hist[p].got, entry[p], TRUE)
    /\ (FireEnded /\ last.hist.got # 0)
          => /\ last.entry.marshals
             /\ last.hist.writes = 1
             /\ \E ok \in BOOLEAN :
                   last.hist.wrote = OneWrite(last.hist.got, last.entry, ok)
    /\ \A b \in sent :
          \E e \in Entries :
             /\ b = hook[1].token \o format(e)
             /\ Contains(b, hook[1].token)
             /\ Contains(b, e.msg)

C11_Witness ==
    /\ FireEnded
    /\ last.result = NoErr
    /\ last.hist.got # 0
    /\ last.hist.wrote = OneWrite(last.hist.got, last.entry, TRUE)
    /\ (hook[1].token \o format(last.entry)) \in sent
    /\ Contains(hook[1].token \o format(last.entry), last.entry.msg)

\* C12: a connection is held by at most one writer at a time, and a held
\* connection is not simultaneously idle in the pool, under every
\* interleaving of Fire and FlushAndClose.
C12_ExclusiveUse ==
    \A p \in Callers :
       held[p] # 0
          => /\ \A q \in Callers \ {p} : held[q] # held[p]
             /\ held[p] \notin Range(pool)

C12_Witness ==
    \E p \in Callers :
       \E q \in Callers \ {p} :
          /\ pc[p] = "write" /\ pc[q] = "write"
          /\ held[p] # 0 /\ held[q] # 0
          /\ hist[p].dialed = 0
          /\ hist[q].dialed = 1

\* ------------------------------------------------------------------------
\* The pool under more writers than its capacity, checked under SpecWriters
\* ------------------------------------------------------------------------

\* The step with which writer p leaves the select of putConn
CheckinStep(p) == pc[p] = "putSelect" /\ pc'[p] # "putSelect"

\* C13: the pool never holds more than poolSize (3) idle connections; a
\* checkin that finds 3 idle connections closes the connection checked in and
\* leaves the pool as it was; a checkin that finds fewer appends the
\* connection to the pool and closes nothing.
C13_IdleCapacity ==
    /\ [](Len(pool) <= 3 /\ poolSize = 3 /\ hook[1].poolSize = 3)
    /\ [][\A p \in Writers :
             CheckinStep(p)
                => IF Len(pool) = 3
                   THEN /\ pool' = pool
                        /\ conns'[held[p]].closes = conns[held[p]].closes + 1
                        /\ \A c \in (1..Len(conns)) \ {held[p]} : conns'[c] = conns[c]
                   ELSE /\ pool' = pool \o <<held[p]>>
                        /\ conns' = conns]_vars

C13_Witness ==
    /\ Len(pool) = 3
    /\ FireEnded
    /\ last.hist.wrote = OneWrite(last.hist.got, last.entry, TRUE)
    /\ last.hist.got \notin Range(pool)
    /\ Closed(last.hist.got)
    /\ \A c \in Range(pool) : IsOpen(c)

\* ------------------------------------------------------------------------
\* Write failure, round trip and shutdown, checked under Spec
\* ------------------------------------------------------------------------

\* The step with which the conn.Write of caller p fails
WriteFails(p) == pc[p] = "write" /\ held[p] # 0 /\ pc'[p] = "idle"

\* The checkout of caller p that follows a failed write which left the pool
\* empty, no call having ended and no FlushAndClose being under way since
CheckoutAfterFailure(p) ==
    /\ pc[p] = "getConn" /\ pc'[p] # "getConn"
    /\ FireEnded /\ last.hist.werr = ErrWrite
    /\ \A q \in Callers : op[q] # "Flush"
    /\ pool = <<>>

\* C14: a failed write closes its connection and never returns it to the
\* pool, write returns the error, and the entry gets no second dial and no
\* second write; if the pool is then empty, the next checkout dials a fresh
\* connection.
C14_WriteFailureDiscards ==
    /\ [](\A c \in Range(pool) : ~Closed(c))
    /\ [][\A p \in Callers :
             /\ WriteFails(p)
                   => /\ conns'[held[p]].closes = conns[held[p]].closes + 1
                      /\ held[p] \notin Range(pool')
                      /\ pool' = pool
                      /\ last'.hist.werr = ErrWrite
                      /\ last'.hist.writes = 1
                      /\ last'.hist.dialed <= 1
                      /\ dials' = dials
                      /\ sent' = sent
             /\ CheckoutAfterFailure(p)
                   => /\ dials' = dials + 1
                      /\ pc'[p] = "write"
                            => /\ Len(conns') = Len(conns) + 1
                               /\ held'[p] = Len(conns')
                               /\ conns'[held'[p]].closes = 0]_vars

\* The step with which caller p leaves getConn
CheckoutStep(p) == pc[p] = "getConn" /\ pc'[p] # "getConn"

\* The step with which caller p leaves the select of putConn having put its
\* connection into the pool
CheckinSucceeds(p) ==
    /\ pc[p] = "putSelect" /\ pc'[p] # "putSelect"
    /\ pool' = pool \o <<held[p]>>

C16_CheckoutNeverNil ==
    \A p \in Callers :
       pc[p] = "write" => (held[p] # 0 /\ IsOpen(held[p]))

\* ------------------------------------------------------------------------
\* The pool as a cache, checked under SpecWriters
\* ------------------------------------------------------------------------

\* The connections checked out and open
CheckedOut == {held[p] : p \in {q \in Writers : held[q] # 0 /\ IsOpen(held[q])}}

\* C17: checkout never waits for a connection to be returned: a writer at
\* getConn can always take its step, whatever the other writers hold, and
\* when the pool is empty that step is a dial of its own; the number of
\* connections checked out is bounded by the number of writers only.
C17_CheckoutNeverWaits ==
    /\ [](\A p \in Writers : pc[p] = "getConn" => ENABLED FireGetConn(p))
    /\ [](Cardinality(CheckedOut) = Cardinality({p \in Writers : held[p] # 0}))
    /\ [][\A p \in Writers :
             (pc[p] = "getConn" /\ pc'[p] # "getConn" /\ pool = <<>>)
                => dials' = dials + 1]_vars

\* More connections than the pool's capacity are checked out and open at once
C17_Witness ==
    /\ Cardinality(CheckedOut) > 3
    /\ poolSize = 3
    /\ \A c \in CheckedOut : IsOpen(c)

\* ------------------------------------------------------------------------
\* The mutex and the life of a connection, checked under Spec
\* ------------------------------------------------------------------------

\* Caller p takes the step
Acts(p) == pc'[p] # pc[p] \/ hist'[p] # hist[p]

\* The step is taken by the caller that holds the mutex
HolderActs == poolMutex # 0 /\ Acts(poolMutex)

\* The step changes the pool: it adds or removes a connection, or closes it
PoolMutated == pool' # pool \/ poolClosed' # poolClosed

\* C18 as stated: every step that adds a connection to the pool, removes one
\* from it, or closes the pool is taken by the caller holding the mutex.
C18_EveryMutationUnderMutex ==
    [][PoolMutated => HolderActs]_vars

\* C18: checkin and shutdown are serialized by the one mutex: a caller is in
\* putConn's select or in FlushAndClose's close and drain only while it holds
\* the mutex, and every step that adds a connection to the pool or closes the
\* pool is taken by the holder; a step that removes a connection is either
\* the holder's drain or a checkout, which takes no lock.
C18_CheckinAndShutdownSerialized ==
    /\ [](\A p \in Callers :
             pc[p] \in {"putSelect", "fClose", "fDrain"} <=> poolMutex = p)
    /\ [][/\ (Len(pool') > Len(pool) \/ poolClosed' # poolClosed)
                => (HolderActs /\ pc[poolMutex] \in {"putSelect", "fClose"})
          /\ Len(pool') < Len(pool)
                => \/ HolderActs /\ pc[poolMutex] = "fDrain"
                   \/ \E p \in Callers : CheckoutStep(p) /\ poolMutex # p]_vars

\* A writer waits for the mutex while another caller, holding it, has put a
\* connection into the pool or drained one from it
C18_Witness ==
    \E p \in Callers :
       \E q \in Callers \ {p} :
          /\ pc[p] = "putLock"
          /\ poolMutex = q
          /\ pc[q] = "fDrain"
          /\ hist[q].drained # {}

\* The callers that hold connection c
Holders(c) == {p \in Callers : held[p] = c}

\* The positions at which connection c sits in the pool
Slots(c) == {i \in 1..Len(pool) : pool[i] = c}

\* C19: every dialed connection is in exactly one of three states: checked
\* out by exactly one writer, idle in the pool (at most once), or closed; a
\* closed connection is not in the pool, is held by no writer, and has been
\* closed once only.
C19_ConnectionConservation ==
    \A c \in 1..Len(conns) :
       /\ Cardinality(Holders(c)) <= 1
       /\ Cardinality(Slots(c)) <= 1
       /\ conns[c].closes <= 1
       /\ \/ Cardinality(Holders(c)) = 1 /\ Slots(c) = {} /\ conns[c].closes = 0
          \/ Holders(c) = {} /\ Cardinality(Slots(c)) = 1 /\ conns[c].closes = 0
          \/ Holders(c) = {} /\ Slots(c) = {} /\ conns[c].closes = 1

\* ------------------------------------------------------------------------
\* Termination, checked under SpecFair
\* ------------------------------------------------------------------------

\* No call is under way, no connection is checked out and the mutex is free
Quiescent ==
    /\ \A p \in Callers : pc[p] = "idle" /\ held[p] = 0
    /\ poolMutex = 0

\* C20: every Fire and every FlushAndClose that has started eventually
\* completes, the drain loop of FlushAndClose terminates, and a caller that
\* holds the mutex eventually releases it, under every interleaving: as a
\* behaviour starts MaxCalls calls at most, it ends in a state where every
\* caller is back from its call and the mutex is free, and stays there.
C20_EveryOperationCompletes == <>[]Quiescent

\* A writer waits for the mutex while FlushAndClose, holding it, is draining
\* a pool that still holds a connection
C20_Witness ==
    \E p \in Callers :
       \E q \in Callers \ {p} :
          /\ pc[p] = "putLock"
          /\ pc[q] = "fDrain"
          /\ poolMutex = q
          /\ pool # <<>>

====
